---- MODULE Spec2Model ----
(***************************************************************************)
(* Model of src/src/lib.rs: the double-fork daemonization of               *)
(* DaemonizeOptions::daemonize, with its three process instances           *)
(* (original, intermediate, grandchild), the exit-code taxonomy, the       *)
(* liveness wait (wait_for_failure) and the success wait                   *)
(* (wait_for_success).                                                     *)
(*                                                                         *)
(* Time is counted in milliseconds from the moment the intermediate        *)
(* starts its liveness wait; it advances in steps of Granule while a       *)
(* poll is pending, and never past the deadline of the pending poll (the   *)
(* kernel's timeout is taken as exact, without scheduling slack).          *)
(***************************************************************************)
EXTENDS Integers, Sequences, FiniteSets, TLC

\* ------------------------------------------------------------- bounds
\* How many times the blocked poll may be interrupted by a signal (EINTR).
MaxInterrupts == 1
\* The integers given to the exit-code taxonomy range over -MaxRawCode..MaxRawCode.
MaxRawCode == 260

\* ---------------------------------------------------------- constants
\* self.timeout_ms.unwrap_or(1000)
DefaultTimeoutMs == 1000

\* The step of the clock, and the timeouts set_timeout_ms is called with.
Granule == DefaultTimeoutMs \div 2
TimeoutValues == {0, Granule}

\* The signals an outside process may kill a child with (SIGKILL, SIGTERM).
Signals == {9, 15}

\* The exit statuses the daemon body may later end with (after daemonize
\* returned Identity::Daemon in the grandchild).
DaemonExitCodes == {0, 1}

Procs == {"original", "intermediate", "grandchild"}

\* ------------------------------------------------- exit-code taxonomy
ExitCodes ==
    {"Ok", "ChildFailedToFork", "ChildSetsidFailed", "GrandchildChdirFailed",
     "GrandchildOpenDevNullFailed", "GrandchildFailedTooSoon"}

\* The variants of the enum in the order of their declaration: Ok = 0 and each
\* following variant one more.
ExitCodeVariants ==
    <<"Ok", "ChildFailedToFork", "ChildSetsidFailed", "GrandchildChdirFailed",
      "GrandchildOpenDevNullFailed", "GrandchildFailedTooSoon">>

\* impl From<ExitCodes> for i32: `val as i32` of the #[repr(i32)] enum.
into_i32(val) ==
    CASE val = "Ok" -> 0
      [] val = "ChildFailedToFork" -> 1
      [] val = "ChildSetsidFailed" -> 2
      [] val = "GrandchildChdirFailed" -> 3
      [] val = "GrandchildOpenDevNullFailed" -> 4
      [] val = "GrandchildFailedTooSoon" -> 5

\* try_from with the arms of 3 and 4 exchanged.
try_from_Exchanged(value) ==
    CASE value = 0 -> [ok |-> TRUE, val |-> "Ok"]
      [] value = 1 -> [ok |-> TRUE, val |-> "ChildFailedToFork"]
      [] value = 2 -> [ok |-> TRUE, val |-> "ChildSetsidFailed"]
      [] value = 3 -> [ok |-> TRUE, val |-> "GrandchildOpenDevNullFailed"]
      [] value = 4 -> [ok |-> TRUE, val |-> "GrandchildChdirFailed"]
      [] value = 5 -> [ok |-> TRUE, val |-> "GrandchildFailedTooSoon"]
      [] OTHER -> [ok |-> FALSE, val |-> "Unknown exitcode"]

\* impl TryFrom<i32> for ExitCodes.
try_from(value) ==
    CASE value = 0 -> [ok |-> TRUE, val |-> "Ok"]
      [] value = 1 -> [ok |-> TRUE, val |-> "ChildFailedToFork"]
      [] value = 2 -> [ok |-> TRUE, val |-> "ChildSetsidFailed"]
      [] value = 3 -> [ok |-> TRUE, val |-> "GrandchildChdirFailed"]
      [] value = 4 -> [ok |-> TRUE, val |-> "GrandchildOpenDevNullFailed"]
      [] value = 5 -> [ok |-> TRUE, val |-> "GrandchildFailedTooSoon"]
      [] OTHER -> [ok |-> FALSE, val |-> "Unknown exitcode"]

\* ------------------------------------------------------ wait statuses
\* The status word waitpid stores: a normal exit keeps the low byte of the
\* exit code in bits 8..15, a death by signal keeps the signal number in the
\* low 7 bits.  NotTerminated marks a process that has not ended.
NotTerminated == 0 - 1
W_EXITCODE(code) == (code % 256) * 256
W_SIGNALED(sig) == sig % 128
\* libc::WEXITSTATUS
WEXITSTATUS(st) == (st \div 256) % 256

\* ------------------------------------------------------------ results
None == [kind |-> "None", val |-> ""]
OkOf(v) == [kind |-> "Ok", val |-> v]
ErrOf(m) == [kind |-> "Err", val |-> m]

\* The match of wait_for_success on the decoded exit status.
decode_status(st) ==
    LET r == try_from(WEXITSTATUS(st)) IN
    IF ~r.ok THEN ErrOf("Unspecified error code: Unknown exitcode")
    ELSE CASE r.val = "Ok" -> OkOf("unit")
           [] r.val = "ChildFailedToFork" -> ErrOf("Child did not launch correctly")
           [] r.val = "ChildSetsidFailed" -> ErrOf("Child setsid failed")
           [] r.val = "GrandchildChdirFailed" -> ErrOf("GrandChild chdir failed")
           [] r.val = "GrandchildOpenDevNullFailed" ->
                  ErrOf("GrandChild open /dev/null failed")
           [] r.val = "GrandchildFailedTooSoon" -> ErrOf("GrandChild failed too soon")

\* wait_for_success(child_pid).map(|()| Identity::Original)
map_original(r) == IF r.kind = "Ok" THEN OkOf("Original") ELSE r

\* unwrap_or_default that falls back to 0 when no timeout was set.
unwrap_or_default_Zero(opt) == IF opt.some THEN opt.val ELSE 0

\* ------------------------------------------------------ configuration
NoTimeout == [some |-> FALSE, val |-> 0]
SomeTimeout(t) == [some |-> TRUE, val |-> t]
\* self.timeout_ms.unwrap_or(1000)
unwrap_or_default(opt) == IF opt.some THEN opt.val ELSE DefaultTimeoutMs

\* -------------------------------------------------- operating system
\* The file-creation mask a process starts with (0o022), and the three
\* standard descriptor slots.
InheritedUmask == 2 * 8 + 2
StdFds == {0, 1, 2}
\* The descriptor tables the caller may start daemonize with: all three
\* standard descriptors open, or stdin closed, or all three closed.
InitialFdTables ==
    { [n \in StdFds |-> "inherited"],
      [n \in StdFds |-> IF n = 0 THEN "closed" ELSE "inherited"],
      [n \in StdFds |-> "closed"] }
\* open() and pidfd_open() return the lowest descriptor number not in use.
lowest_free(tab) ==
    IF \E n \in StdFds : tab[n] = "closed"
    THEN CHOOSE n \in StdFds : tab[n] = "closed" /\ \A m \in StdFds : m < n => tab[m] # "closed"
    ELSE Cardinality(StdFds)

VARIABLES
    timeout_ms,   \* DaemonizeOptions.timeout_ms : Option<u16>
    pc,           \* where each process instance is in daemonize
    result,       \* what daemonize returned in each process instance
    status,       \* the wait status of each terminated process instance
    sid,          \* the session of each process instance
    leader,       \* whether the process instance leads its session
    cwd,          \* the working directory of each process instance
    umask,        \* the file-creation mask of each process instance
    fds,          \* descriptor slots 0, 1, 2 of each process instance
    null_fd,      \* the descriptor open("/dev/null") returned in the grandchild
    null_open,    \* whether that descriptor is still open
    timeout,      \* wait_for_failure's timeout_ms argument
    pid_fd,       \* the descriptor pidfd_open returned (-1: it failed)
    polled,       \* ms the pending poll call has been blocked
    waited,       \* ms since wait_for_failure was entered
    interrupts,   \* how many times poll returned EINTR
    wff,          \* what wait_for_failure returned, when, and whether the grandchild was alive
    gc_end,       \* when the grandchild terminated, relative to the liveness wait
    failed,       \* the primitives that reported a failure
    last_given,   \* the last argument given to set_timeout_ms (-1: none yet)
    c_in,         \* taxonomy check: the integer given
    c_stage,      \* taxonomy check: what has been applied to it
    c_dec,        \* taxonomy check: what ExitCodes::try_from returned
    c_enc,        \* taxonomy check: what i32::from returned
    c_res         \* taxonomy check: what wait_for_success made of the exit status

procVars == <<pc, result, status>>
osVars == <<sid, leader, cwd, umask, fds, null_fd, null_open>>
waitVars == <<timeout, pid_fd, polled, waited, interrupts, wff>>
codecVars == <<c_in, c_stage, c_dec, c_enc, c_res>>
vars == <<timeout_ms, pc, result, status, sid, leader, cwd, umask, fds, null_fd,
          null_open, timeout, pid_fd, polled, waited, interrupts, wff, gc_end, failed,
          last_given, c_in, c_stage, c_dec, c_enc, c_res>>

Alive(p) == pc[p] \notin {"unborn", "exited", "killed"}
Terminated(p) == status[p] # NotTerminated

\* DaemonizeOptions::new() in a process that has not forked yet.
ProgramInit ==
    /\ timeout_ms = NoTimeout
    /\ last_given = 0 - 1
    /\ pc = [p \in Procs |-> IF p = "original" THEN "new" ELSE "unborn"]
    /\ result = [p \in Procs |-> None]
    /\ status = [p \in Procs |-> NotTerminated]
    /\ sid = [p \in Procs |-> "caller"]
    /\ leader = [p \in Procs |-> FALSE]
    /\ cwd = [p \in Procs |-> "inherited"]
    /\ umask = [p \in Procs |-> InheritedUmask]
    /\ \E tab \in InitialFdTables : fds = [p \in Procs |-> tab]
    /\ null_fd = 0 - 1
    /\ null_open = FALSE
    /\ timeout = 0
    /\ pid_fd = 0 - 1
    /\ polled = 0
    /\ waited = 0
    /\ interrupts = 0
    /\ wff = [ret |-> "None", at |-> 0, gc_alive |-> FALSE]
    /\ gc_end = [when |-> "never", at |-> 0]
    /\ failed = {}

\* No integer is being put through the taxonomy.
CodecIdle ==
    /\ c_in = 0
    /\ c_stage = "idle"
    /\ c_dec = [ok |-> FALSE, val |-> ""]
    /\ c_enc = 0 - 1
    /\ c_res = None

Init == ProgramInit /\ CodecIdle

\* process::exit(code) in process instance p.
process_exit(p, code) ==
    /\ pc' = [pc EXCEPT ![p] = "exited"]
    /\ status' = [status EXCEPT ![p] = W_EXITCODE(into_i32(code))]

\* ------------------------------------------------------ configuration
set_timeout_ms(t) ==
    /\ pc["original"] = "new"
    /\ timeout_ms' = SomeTimeout(t)
    /\ last_given' = t
    /\ UNCHANGED <<codecVars, procVars, osVars, waitVars, gc_end, failed>>

\* ------------------------------------------------------- first fork
\* fork() returned in both processes: the original goes on to
\* wait_for_success, the child (the intermediate) to setsid.
FirstForkOk ==
    /\ pc["original"] = "new"
    /\ pc' = [pc EXCEPT !["original"] = "wait_for_success", !["intermediate"] = "setsid"]
    /\ sid' = [sid EXCEPT !["intermediate"] = sid["original"]]
    /\ leader' = [leader EXCEPT !["intermediate"] = FALSE]
    /\ cwd' = [cwd EXCEPT !["intermediate"] = cwd["original"]]
    /\ umask' = [umask EXCEPT !["intermediate"] = umask["original"]]
    /\ fds' = [fds EXCEPT !["intermediate"] = fds["original"]]
    /\ UNCHANGED <<codecVars, last_given, timeout_ms, result, status, null_fd, null_open, waitVars, gc_end, failed>>

\* FirstForkFail without its `return`: the original goes on to setsid.
FirstForkFail_NoReturn ==
    /\ pc["original"] = "new"
    /\ pc' = [pc EXCEPT !["original"] = "returned"]
    /\ result' = [result EXCEPT !["original"] = ErrOf("os error: fork")]
    /\ failed' = failed \cup {"fork1"}
    /\ sid' = [sid EXCEPT !["original"] = "new"]
    /\ leader' = [leader EXCEPT !["original"] = TRUE]
    /\ UNCHANGED <<codecVars, last_given, timeout_ms, status, cwd, umask, fds, null_fd, null_open, waitVars,
                   gc_end>>

\* fork() failed: `return Err(error)` in the original.
FirstForkFail ==
    /\ pc["original"] = "new"
    /\ pc' = [pc EXCEPT !["original"] = "returned"]
    /\ result' = [result EXCEPT !["original"] = ErrOf("os error: fork")]
    /\ failed' = failed \cup {"fork1"}
    /\ UNCHANGED <<codecVars, last_given, timeout_ms, status, osVars, waitVars, gc_end>>

\* ----------------------------------------------------- success wait
\* waitpid returned the intermediate's status; the original returns what
\* wait_for_success makes of it.
WaitForSuccess ==
    /\ pc["original"] = "wait_for_success"
    /\ Terminated("intermediate")
    /\ pc' = [pc EXCEPT !["original"] = "returned"]
    /\ result' = [result EXCEPT
                    !["original"] = map_original(decode_status(status["intermediate"]))]
    /\ UNCHANGED <<codecVars, last_given, timeout_ms, status, osVars, waitVars, gc_end, failed>>

\* waitpid failed with an error other than EINTR: the `?` of wait_for_success.
\* waitpid on one's own child fails only once the child is gone (ECHILD, when
\* the caller has SIGCHLD ignored and the kernel reaps the child itself).
WaitpidFail ==
    /\ pc["original"] = "wait_for_success"
    /\ Terminated("intermediate")
    /\ pc' = [pc EXCEPT !["original"] = "returned"]
    /\ result' = [result EXCEPT !["original"] = ErrOf("os error: waitpid")]
    /\ failed' = failed \cup {"waitpid"}
    /\ UNCHANGED <<codecVars, last_given, timeout_ms, status, osVars, waitVars, gc_end>>

\* ------------------------------------------------------ intermediate
\* SetsidOk whose setsid creates no session: the intermediate stays in the
\* caller's session.
SetsidOk_SameSession ==
    /\ pc["intermediate"] = "setsid"
    /\ pc' = [pc EXCEPT !["intermediate"] = "fork"]
    /\ UNCHANGED <<codecVars, last_given, timeout_ms, result, status, osVars, waitVars, gc_end,
                   failed>>

SetsidOk ==
    /\ pc["intermediate"] = "setsid"
    /\ pc' = [pc EXCEPT !["intermediate"] = "fork"]
    /\ sid' = [sid EXCEPT !["intermediate"] = "new"]
    /\ leader' = [leader EXCEPT !["intermediate"] = TRUE]
    /\ UNCHANGED <<codecVars, last_given, timeout_ms, result, status, cwd, umask, fds, null_fd, null_open,
                   waitVars, gc_end, failed>>

\* SetsidFail without its process::exit: the intermediate goes on to the
\* second fork in the caller's session.
SetsidFail_GoesOn ==
    /\ pc["intermediate"] = "setsid"
    /\ pc' = [pc EXCEPT !["intermediate"] = "fork"]
    /\ failed' = failed \cup {"setsid"}
    /\ UNCHANGED <<codecVars, last_given, timeout_ms, result, status, osVars, waitVars, gc_end>>

SetsidFail ==
    /\ pc["intermediate"] = "setsid"
    /\ process_exit("intermediate", "ChildSetsidFailed")
    /\ failed' = failed \cup {"setsid"}
    /\ UNCHANGED <<codecVars, last_given, timeout_ms, result, osVars, waitVars, gc_end>>

\* The second fork returned in both processes: the intermediate enters
\* wait_for_failure(child_pid, self.timeout_ms.unwrap_or(1000)), the
\* grandchild goes on to chdir.
SecondForkOk ==
    /\ pc["intermediate"] = "fork"
    /\ pc' = [pc EXCEPT !["intermediate"] = "pidfd_open", !["grandchild"] = "chdir"]
    /\ sid' = [sid EXCEPT !["grandchild"] = sid["intermediate"]]
    /\ leader' = [leader EXCEPT !["grandchild"] = FALSE]
    /\ cwd' = [cwd EXCEPT !["grandchild"] = cwd["intermediate"]]
    /\ umask' = [umask EXCEPT !["grandchild"] = umask["intermediate"]]
    /\ fds' = [fds EXCEPT !["grandchild"] = fds["intermediate"]]
    /\ timeout' = unwrap_or_default(timeout_ms)
    /\ UNCHANGED <<codecVars, last_given, timeout_ms, result, status, null_fd, null_open, pid_fd, polled,
                   waited, interrupts, wff, gc_end, failed>>

\* SecondForkFail without its process::exit: the intermediate returns the
\* error to its caller and lives on.
SecondForkFail_Returns ==
    /\ pc["intermediate"] = "fork"
    /\ pc' = [pc EXCEPT !["intermediate"] = "returned"]
    /\ result' = [result EXCEPT !["intermediate"] = ErrOf("os error: fork")]
    /\ failed' = failed \cup {"fork2"}
    /\ UNCHANGED <<codecVars, last_given, timeout_ms, status, osVars, waitVars, gc_end>>

SecondForkFail ==
    /\ pc["intermediate"] = "fork"
    /\ process_exit("intermediate", "ChildFailedToFork")
    /\ failed' = failed \cup {"fork2"}
    /\ UNCHANGED <<codecVars, last_given, timeout_ms, result, osVars, waitVars, gc_end>>

\* ----------------------------------------------------- liveness wait
\* syscall(SYS_pidfd_open, pid, 0): the result is not checked.
\* The new descriptor is the lowest free one, which may be one of 0, 1, 2.
PidfdOpenOk ==
    /\ pc["intermediate"] = "pidfd_open"
    /\ pc' = [pc EXCEPT !["intermediate"] = "poll"]
    /\ pid_fd' = lowest_free(fds["intermediate"])
    /\ fds' = IF lowest_free(fds["intermediate"]) \in StdFds
              THEN [fds EXCEPT !["intermediate"][lowest_free(fds["intermediate"])] = "pidfd"]
              ELSE fds
    /\ UNCHANGED <<codecVars, last_given, timeout_ms, result, status, sid, leader, cwd,
                   umask, null_fd, null_open, timeout, polled, waited, interrupts, wff,
                   gc_end, failed>>

PidfdOpenFail ==
    /\ pc["intermediate"] = "pidfd_open"
    /\ pc' = [pc EXCEPT !["intermediate"] = "poll"]
    /\ pid_fd' = 0 - 1
    /\ failed' = failed \cup {"pidfd_open"}
    /\ UNCHANGED <<codecVars, last_given, timeout_ms, result, status, osVars, timeout, polled, waited,
                   interrupts, wff, gc_end>>

\* poll reports POLLIN on a process descriptor once the process has
\* terminated; a negative descriptor is ignored by poll.
poll_ready == pid_fd >= 0 /\ Terminated("grandchild")
\* poll_timed_out of a poll that does not wait for its timeout.
poll_timed_out_AtOnce == polled >= 0

\* The timeout of the pending poll call has run out.
poll_timed_out == polled >= timeout

\* `if poll(..)? == 0 { Ok(()) } else { Err(..) }`; -1 stands for the
\* error the `?` returns.
wait_for_failure_result(poll_ret) == IF poll_ret = 0 THEN "Ok" ELSE "Err"

\* exit_code_after_wait with the two arms exchanged.
exit_code_after_wait_Swapped(r) == IF r = "Ok" THEN "GrandchildFailedTooSoon" ELSE "Ok"

\* The match on wait_for_failure's result in the intermediate.
exit_code_after_wait(r) == IF r = "Ok" THEN "Ok" ELSE "GrandchildFailedTooSoon"

\* IntermediateDecides whose Ok arm does not exit: the intermediate runs on
\* to the end of daemonize and returns as the daemon.
IntermediateDecides_FallsThrough(poll_ret) ==
    /\ wff' = [ret |-> wait_for_failure_result(poll_ret), at |-> waited,
               gc_alive |-> ~Terminated("grandchild")]
    /\ IF wait_for_failure_result(poll_ret) = "Ok"
       THEN /\ pc' = [pc EXCEPT !["intermediate"] = "returned"]
            /\ result' = [result EXCEPT !["intermediate"] = OkOf("Daemon")]
            /\ UNCHANGED status
       ELSE /\ process_exit("intermediate", "GrandchildFailedTooSoon")
            /\ UNCHANGED result
    /\ UNCHANGED <<codecVars, last_given, timeout_ms, osVars, timeout, pid_fd, polled, waited, interrupts,
                   gc_end>>

\* wait_for_failure returns with poll's value poll_ret and the
\* intermediate exits with the code chosen from it.
IntermediateDecides(poll_ret) ==
    /\ wff' = [ret |-> wait_for_failure_result(poll_ret), at |-> waited,
               gc_alive |-> ~Terminated("grandchild")]
    /\ process_exit("intermediate", exit_code_after_wait(wait_for_failure_result(poll_ret)))
    /\ UNCHANGED <<codecVars, last_given, timeout_ms, result, osVars, timeout, pid_fd, polled, waited,
                   interrupts, gc_end>>

\* poll returned 1: the grandchild has terminated.
PollReady ==
    /\ pc["intermediate"] = "poll"
    /\ poll_ready
    /\ IntermediateDecides(1)
    /\ UNCHANGED failed

\* poll returned 0: nothing happened on the descriptor within the timeout.
PollTimeout ==
    /\ pc["intermediate"] = "poll"
    /\ ~poll_ready
    /\ poll_timed_out
    /\ IntermediateDecides(0)
    /\ UNCHANGED failed

\* poll failed with an error other than EINTR: the `?` of wait_for_failure.
PollFail ==
    /\ pc["intermediate"] = "poll"
    /\ IntermediateDecides(0 - 1)
    /\ failed' = failed \cup {"poll"}

\* cvt_r: poll was interrupted by a signal and is called again, with the
\* same timeout_ms.
PollInterrupted ==
    /\ pc["intermediate"] = "poll"
    /\ ~poll_ready
    /\ ~poll_timed_out
    /\ interrupts < MaxInterrupts
    /\ polled' = 0
    /\ interrupts' = interrupts + 1
    /\ UNCHANGED <<codecVars, last_given, timeout_ms, procVars, osVars, timeout, pid_fd, waited, wff, gc_end,
                   failed>>

\* Time passes while the intermediate is blocked in poll.
Tick ==
    /\ pc["intermediate"] = "poll"
    /\ ~poll_timed_out
    /\ polled' = polled + Granule
    /\ waited' = waited + Granule
    /\ UNCHANGED <<codecVars, last_given, timeout_ms, procVars, osVars, timeout, pid_fd, interrupts, wff,
                   gc_end, failed>>

\* ------------------------------------------------------- grandchild
\* The grandchild terminates: note where the liveness wait stood.
GrandchildEnds ==
    gc_end' = [when |-> IF pc["intermediate"] \in {"pidfd_open", "poll"}
                        THEN "in_wait" ELSE "after_wait",
               at |-> waited]

\* set_current_dir("/")
ChdirOk ==
    /\ pc["grandchild"] = "chdir"
    /\ pc' = [pc EXCEPT !["grandchild"] = "umask"]
    /\ cwd' = [cwd EXCEPT !["grandchild"] = "/"]
    /\ UNCHANGED <<codecVars, last_given, timeout_ms, result, status, sid, leader, umask, fds, null_fd,
                   null_open, waitVars, gc_end, failed>>

\* ChdirFail that exits with the code of a failed setsid.
ChdirFail_WrongCode ==
    /\ pc["grandchild"] = "chdir"
    /\ process_exit("grandchild", "ChildSetsidFailed")
    /\ GrandchildEnds
    /\ failed' = failed \cup {"chdir"}
    /\ UNCHANGED <<codecVars, last_given, timeout_ms, result, osVars, waitVars>>

ChdirFail ==
    /\ pc["grandchild"] = "chdir"
    /\ process_exit("grandchild", "GrandchildChdirFailed")
    /\ GrandchildEnds
    /\ failed' = failed \cup {"chdir"}
    /\ UNCHANGED <<codecVars, last_given, timeout_ms, result, osVars, waitVars>>

\* libc::umask(0)
Umask ==
    /\ pc["grandchild"] = "umask"
    /\ pc' = [pc EXCEPT !["grandchild"] = "open"]
    /\ umask' = [umask EXCEPT !["grandchild"] = 0]
    /\ UNCHANGED <<codecVars, last_given, timeout_ms, result, status, sid, leader, cwd, fds, null_fd,
                   null_open, waitVars, gc_end, failed>>

\* OpenOptions::new().read(true).write(true).open("/dev/null"): the
\* descriptor is the lowest free one, which may be one of 0, 1, 2.
OpenNullOk ==
    /\ pc["grandchild"] = "open"
    /\ pc' = [pc EXCEPT !["grandchild"] = "dup2_stdin"]
    /\ null_fd' = lowest_free(fds["grandchild"])
    /\ null_open' = TRUE
    /\ fds' = IF lowest_free(fds["grandchild"]) \in StdFds
              THEN [fds EXCEPT !["grandchild"][lowest_free(fds["grandchild"])] = "null"]
              ELSE fds
    /\ UNCHANGED <<codecVars, last_given, timeout_ms, result, status, sid, leader, cwd, umask, waitVars,
                   gc_end, failed>>

OpenNullFail ==
    /\ pc["grandchild"] = "open"
    /\ process_exit("grandchild", "GrandchildOpenDevNullFailed")
    /\ GrandchildEnds
    /\ failed' = failed \cup {"open"}
    /\ UNCHANGED <<codecVars, last_given, timeout_ms, result, osVars, waitVars>>

\* The three `let _r = dup2(fd, ..)` lines, in their order.
Dup2Label(n) == CASE n = 0 -> "dup2_stdin" [] n = 1 -> "dup2_stdout" [] n = 2 -> "dup2_stderr"
AfterDup2(n) == CASE n = 0 -> "dup2_stdout" [] n = 1 -> "dup2_stderr" [] n = 2 -> "close"

\* Dup2Ok in a grandchild that shares its descriptor table with the
\* original: the slot is redirected in both.
Dup2Ok_Shared(n) ==
    /\ pc["grandchild"] = Dup2Label(n)
    /\ pc' = [pc EXCEPT !["grandchild"] = AfterDup2(n)]
    /\ fds' = [fds EXCEPT !["grandchild"][n] = "null", !["original"][n] = "null"]
    /\ UNCHANGED <<codecVars, last_given, timeout_ms, result, status, sid, leader, cwd, umask, null_fd,
                   null_open, waitVars, gc_end, failed>>

Dup2Ok(n) ==
    /\ pc["grandchild"] = Dup2Label(n)
    /\ pc' = [pc EXCEPT !["grandchild"] = AfterDup2(n)]
    /\ fds' = [fds EXCEPT !["grandchild"][n] = "null"]
    /\ UNCHANGED <<codecVars, last_given, timeout_ms, result, status, sid, leader, cwd, umask, null_fd,
                   null_open, waitVars, gc_end, failed>>

\* Dup2Fail that treats the failure like a failed open and exits.
Dup2Fail_Exits(n) ==
    /\ pc["grandchild"] = Dup2Label(n)
    /\ process_exit("grandchild", "GrandchildOpenDevNullFailed")
    /\ GrandchildEnds
    /\ failed' = failed \cup {"dup2"}
    /\ UNCHANGED <<codecVars, last_given, timeout_ms, result, osVars, waitVars>>

\* The result of dup2 is dropped: a failure changes nothing.
Dup2Fail(n) ==
    /\ pc["grandchild"] = Dup2Label(n)
    /\ pc' = [pc EXCEPT !["grandchild"] = AfterDup2(n)]
    /\ failed' = failed \cup {"dup2"}
    /\ UNCHANGED <<codecVars, last_given, timeout_ms, result, status, osVars, waitVars, gc_end>>

\* `if fd > 2 { let _r = close(fd); }` and then `Ok(Identity::Daemon)`.
\* close releases the descriptor whether or not it reports an error.
CloseAndReturn(close_ok) ==
    /\ pc["grandchild"] = "close"
    /\ null_fd > 2
    /\ null_open' = FALSE
    /\ failed' = IF close_ok THEN failed ELSE failed \cup {"close"}
    /\ pc' = [pc EXCEPT !["grandchild"] = "returned"]
    /\ result' = [result EXCEPT !["grandchild"] = OkOf("Daemon")]
    /\ UNCHANGED <<codecVars, last_given, timeout_ms, status, sid, leader, cwd, umask, fds, null_fd,
                   waitVars, gc_end>>

ReturnDaemon ==
    /\ pc["grandchild"] = "close"
    /\ ~(null_fd > 2)
    /\ pc' = [pc EXCEPT !["grandchild"] = "returned"]
    /\ result' = [result EXCEPT !["grandchild"] = OkOf("Daemon")]
    /\ UNCHANGED <<codecVars, last_given, timeout_ms, status, osVars, waitVars, gc_end, failed>>

\* ------------------------------------------------------ environment
\* The daemon body, running after daemonize returned in the grandchild,
\* ends with some exit status.
DaemonExit(code) ==
    /\ pc["grandchild"] = "returned"
    /\ pc' = [pc EXCEPT !["grandchild"] = "exited"]
    /\ status' = [status EXCEPT !["grandchild"] = W_EXITCODE(code)]
    /\ GrandchildEnds
    /\ UNCHANGED <<codecVars, last_given, timeout_ms, result, osVars, waitVars, failed>>

\* A signal from outside kills the grandchild.
KillGrandchild(sig) ==
    /\ Alive("grandchild")
    /\ pc' = [pc EXCEPT !["grandchild"] = "killed"]
    /\ status' = [status EXCEPT !["grandchild"] = W_SIGNALED(sig)]
    /\ GrandchildEnds
    /\ UNCHANGED <<codecVars, last_given, timeout_ms, result, osVars, waitVars, failed>>

\* A signal from outside kills the intermediate.
KillIntermediate(sig) ==
    /\ Alive("intermediate")
    /\ pc' = [pc EXCEPT !["intermediate"] = "killed"]
    /\ status' = [status EXCEPT !["intermediate"] = W_SIGNALED(sig)]
    /\ UNCHANGED <<codecVars, last_given, timeout_ms, result, osVars, waitVars, gc_end, failed>>

\* ---------------------------------------------------- specification
Next ==
    \/ \E t \in TimeoutValues : set_timeout_ms(t)
    \/ FirstForkOk
    \/ FirstForkFail
    \/ WaitForSuccess
    \/ WaitpidFail
    \/ SetsidOk
    \/ SetsidFail
    \/ SecondForkOk
    \/ SecondForkFail
    \/ PidfdOpenOk
    \/ PidfdOpenFail
    \/ PollReady
    \/ PollTimeout
    \/ PollFail
    \/ PollInterrupted
    \/ Tick
    \/ ChdirOk
    \/ ChdirFail
    \/ Umask
    \/ OpenNullOk
    \/ OpenNullFail
    \/ \E n \in StdFds : Dup2Ok(n)
    \/ \E n \in StdFds : Dup2Fail(n)
    \/ \E ok \in BOOLEAN : CloseAndReturn(ok)
    \/ ReturnDaemon
    \/ \E code \in DaemonExitCodes : DaemonExit(code)
    \/ \E sig \in Signals : KillGrandchild(sig)
    \/ \E sig \in Signals : KillIntermediate(sig)

Spec == Init /\ [][Next]_vars

\* --------------------------------------------------- fair scheduling
\* The steps daemonize takes in the intermediate once it runs; a poll that
\* fails is not something scheduling brings about.
IntermediateStep ==
    \/ SetsidOk
    \/ SetsidFail
    \/ SecondForkOk
    \/ SecondForkFail
    \/ PidfdOpenOk
    \/ PidfdOpenFail
    \/ PollReady
    \/ PollTimeout

\* The steps daemonize takes in the grandchild once it runs.
GrandchildStep ==
    \/ ChdirOk
    \/ ChdirFail
    \/ Umask
    \/ OpenNullOk
    \/ OpenNullFail
    \/ \E n \in StdFds : Dup2Ok(n)
    \/ \E n \in StdFds : Dup2Fail(n)
    \/ \E ok \in BOOLEAN : CloseAndReturn(ok)
    \/ ReturnDaemon

\* The original's waitpid returns once the intermediate has terminated.
OriginalWaitReturns == WaitForSuccess \/ WaitpidFail

\* Every process that can take a step is scheduled in the end, and time
\* passes while a poll is pending.
FairSpec ==
    /\ Spec
    /\ WF_vars(IntermediateStep)
    /\ WF_vars(GrandchildStep)
    /\ WF_vars(OriginalWaitReturns)
    /\ WF_vars(Tick)

\* ------------------------------------------- the taxonomy on its own
\* The integers put through ExitCodes::try_from, i32::from and the match of
\* wait_for_success.
RawCodes == (0 - MaxRawCode)..MaxRawCode

CodecInit ==
    /\ ProgramInit
    /\ c_in \in RawCodes
    /\ c_stage = "input"
    /\ c_dec = [ok |-> FALSE, val |-> ""]
    /\ c_enc = 0 - 1
    /\ c_res = None

programVars == <<timeout_ms, pc, result, status, sid, leader, cwd, umask, fds, null_fd,
                 null_open, timeout, pid_fd, polled, waited, interrupts, wff, gc_end,
                 failed, last_given>>

\* ExitCodes::try_from(c_in)
ApplyTryFrom ==
    /\ c_stage = "input"
    /\ c_stage' = "decoded"
    /\ c_dec' = try_from(c_in)
    /\ UNCHANGED <<programVars, c_in, c_enc, c_res>>

\* i32::from of the decoded value
ApplyInto ==
    /\ c_stage = "decoded"
    /\ c_dec.ok
    /\ c_stage' = "encoded"
    /\ c_enc' = into_i32(c_dec.val)
    /\ UNCHANGED <<programVars, c_in, c_dec, c_res>>

\* wait_for_success on the status of a child that ended with exit(c_in)
ApplyWaitForSuccess ==
    /\ c_stage = "input"
    /\ c_stage' = "waited"
    /\ c_res' = decode_status(W_EXITCODE(c_in))
    /\ UNCHANGED <<programVars, c_in, c_dec, c_enc>>

CodecNext ==
    \/ ApplyTryFrom
    \/ ApplyInto
    \/ ApplyWaitForSuccess

CodecSpec == CodecInit /\ [][CodecNext]_vars

\* ============================================================ claims
Returned(p) == pc[p] = "returned" \/ result[p] # None
ExitedWith(p, code) == pc[p] = "exited" /\ status[p] = W_EXITCODE(into_i32(code))
\* The grandchild terminated inside the liveness wait, strictly before
\* the timeout had elapsed since the wait began.
DiedBeforeTimeout == gc_end.when = "in_wait" /\ gc_end.at < timeout
\* The grandchild terminated while the intermediate was still in its
\* liveness wait (however long the wait had lasted by then).
DiedDuringWait == gc_end.when = "in_wait"

\* C1: in every interleaving, only the original can return
\* Ok(Identity::Original) and only the grandchild Ok(Identity::Daemon), so at
\* most one instance returns each; the intermediate never returns from
\* daemonize and never runs the grandchild's part: when its own code ends, it
\* is through process::exit with a taxonomy code.
C1_OneOriginalOneDaemon ==
    /\ \A p \in Procs : result[p] = OkOf("Original") => p = "original"
    /\ \A p \in Procs : result[p] = OkOf("Daemon") => p = "grandchild"
    /\ Cardinality({p \in Procs : result[p] = OkOf("Original")}) <= 1
    /\ Cardinality({p \in Procs : result[p] = OkOf("Daemon")}) <= 1
    /\ result["intermediate"] = None
    /\ pc["intermediate"] \in {"unborn", "setsid", "fork", "pidfd_open", "poll",
                               "exited", "killed"}
    /\ pc["intermediate"] = "exited" =>
           \E c \in ExitCodes : status["intermediate"] = W_EXITCODE(into_i32(c))

\* Both forks succeeded, the intermediate exited, and the other two returned.
C1_Witness ==
    /\ result["original"] = OkOf("Original")
    /\ result["grandchild"] = OkOf("Daemon")
    /\ pc["intermediate"] = "exited"

\* The hypothesis of C2: default configuration, both forks, setsid, chdir and
\* the open of the null device have succeeded, and the grandchild is alive
\* past the window.
C2_Hypothesis ==
    /\ ~timeout_ms.some
    /\ failed \cap {"fork1", "setsid", "fork2", "chdir", "open"} = {}
    /\ null_fd >= 0
    /\ ~DiedBeforeTimeout

C2_Conclusion ==
    /\ Returned("original") => result["original"] = OkOf("Original")
    /\ Returned("grandchild") => result["grandchild"] = OkOf("Daemon")

\* C2 as stated: with the default configuration, when fork, setsid, chdir and
\* the open of the null device succeed and the grandchild outlives the 1000 ms
\* window, the original returns Ok(Original) and the grandchild Ok(Daemon)
\* (stated for the executions in which nothing kills the intermediate and
\* waitpid succeeds).
C2_AsStated ==
    (/\ C2_Hypothesis
     /\ pc["intermediate"] # "killed"
     /\ "waitpid" \notin failed) => C2_Conclusion

\* C2, amended: the same, when moreover the grandchild is alive until the
\* liveness wait ends and neither poll nor waitpid reports an error.
C2_DefaultHappyPath ==
    (/\ C2_Hypothesis
     /\ ~DiedDuringWait
     /\ failed \cap {"poll", "waitpid"} = {}) => C2_Conclusion

\* The default run to its end: the wait lasted the default 1000 ms.
C2_Witness ==
    /\ C2_Hypothesis
    /\ ~DiedDuringWait
    /\ failed = {}
    /\ timeout = DefaultTimeoutMs
    /\ wff.ret = "Ok"
    /\ wff.at >= DefaultTimeoutMs
    /\ result["original"] = OkOf("Original")
    /\ result["grandchild"] = OkOf("Daemon")

\* C3: the original returns Ok(Identity::Original) only if the intermediate
\* ended by exiting with code Ok (0), after its liveness wait returned Ok.
C3_OkOnlyAfterExitOk ==
    result["original"] = OkOf("Original") =>
        /\ ExitedWith("intermediate", "Ok")
        /\ wff.ret = "Ok"

\* The intermediate was not killed from outside and its pidfd_open succeeded.
UndisturbedWait == pc["intermediate"] # "killed" /\ "pidfd_open" \notin failed

\* C4: when setsid, the second fork, chdir or the open of the null device
\* failed, the original's call returns Err, never Ok(Identity::Original)
\* (stated for the executions in which nothing kills the intermediate and
\* pidfd_open succeeds).
C4_FailureReachesOriginal ==
    (/\ failed \cap {"setsid", "fork2", "chdir", "open"} # {}
     /\ UndisturbedWait
     /\ Returned("original")) => result["original"].kind = "Err"

\* C5: when the null device cannot be opened, the grandchild exits with code
\* 4 and the original's call returns the error wait_for_success makes of exit
\* code 4 (stated for the executions in which the grandchild fails before the
\* timeout, nothing kills the intermediate, and pidfd_open, poll and waitpid
\* succeed).
C5_OpenNullFailureReported ==
    "open" \in failed =>
        /\ ExitedWith("grandchild", "GrandchildOpenDevNullFailed")
        /\ (/\ Returned("original")
            /\ DiedBeforeTimeout
            /\ UndisturbedWait
            /\ failed \cap {"poll", "waitpid"} = {}) =>
               result["original"] =
                   decode_status(W_EXITCODE(into_i32("GrandchildOpenDevNullFailed")))

\* C6: if the grandchild terminates strictly before the timeout elapses,
\* wait_for_failure returns Err, the intermediate exits with
\* GrandchildFailedTooSoon and the original's call returns Err (stated for
\* the executions in which nothing kills the intermediate).
C6_EarlyDeathIsFailure ==
    (DiedBeforeTimeout /\ pc["intermediate"] # "killed") =>
        /\ wff.ret # "Ok"
        /\ pc["intermediate"] = "exited" =>
               ExitedWith("intermediate", "GrandchildFailedTooSoon")
        /\ Returned("original") => result["original"].kind = "Err"

\* The intermediate does not exit with Ok before the timeout has elapsed.
NoOkExitBeforeTimeout ==
    ExitedWith("intermediate", "Ok") => waited >= timeout /\ wff.at >= timeout

\* C7 as stated: when the grandchild does not exit, wait_for_failure returns
\* Ok(()), no earlier than T after it started, and the intermediate does not
\* exit with Ok before T has elapsed.
C7_AsStated ==
    /\ (wff.ret # "None" /\ wff.gc_alive) => (wff.ret = "Ok" /\ wff.at >= timeout)
    /\ NoOkExitBeforeTimeout

\* C7, amended: when the grandchild does not exit, wait_for_failure returns
\* Ok(()) unless poll itself failed, it returns Ok(()) no earlier than T after
\* it started, and the intermediate does not exit with Ok before T has elapsed.
C7_OkNoEarlierThanTimeout ==
    /\ (wff.ret # "None" /\ wff.gc_alive /\ "poll" \notin failed) => wff.ret = "Ok"
    /\ wff.ret = "Ok" => wff.at >= timeout
    /\ NoOkExitBeforeTimeout

\* A wait with a positive timeout that ran its full length and returned Ok
\* with the grandchild alive.
C7_Witness ==
    /\ wff.ret = "Ok"
    /\ wff.gc_alive
    /\ timeout > 0
    /\ wff.at = timeout
    /\ ExitedWith("intermediate", "Ok")

\* C8: the intermediate has decided no later than T after it began
\* wait_for_failure, also when poll is interrupted and retried.
C8_WaitAtMostTimeout ==
    /\ pc["intermediate"] = "poll" => waited <= timeout
    /\ wff.ret # "None" => wff.at <= timeout

\* C9: with a timeout of 0 ms wait_for_failure returns at once, with Ok(()) if
\* the grandchild has not exited at that moment and with Err if it has
\* (leaving aside a failure of poll itself).
C9_ZeroTimeoutDoesNotBlock ==
    (timeout = 0 /\ wff.ret # "None" /\ "poll" \notin failed) =>
        /\ wff.at = 0
        /\ wff.gc_alive => wff.ret = "Ok"
        /\ ~wff.gc_alive => wff.ret = "Err"

\* C10: if the first fork fails, the original's call returns that error and
\* nothing else has happened or happens: no child or grandchild exists, no
\* process has exited, and no session, working directory, mask or descriptor
\* has been changed.
C10_FirstForkFailureOnlyReturnsErr ==
    "fork1" \in failed =>
        /\ result["original"] = ErrOf("os error: fork")
        /\ pc = [p \in Procs |-> IF p = "original" THEN "returned" ELSE "unborn"]
        /\ \A p \in Procs :
              /\ status[p] = NotTerminated
              /\ sid[p] = "caller"
              /\ ~leader[p]
              /\ cwd[p] = "inherited"
              /\ umask[p] = InheritedUmask
              /\ fds[p] \in InitialFdTables
        /\ null_fd < 0 /\ ~null_open
        /\ failed = {"fork1"}

C10_Witness == "fork1" \in failed /\ pc["original"] = "returned"

\* C11: every n in 0..5 decodes with ExitCodes::try_from to the n-th outcome of
\* the taxonomy (Ok, ChildFailedToFork, ChildSetsidFailed,
\* GrandchildChdirFailed, GrandchildOpenDevNullFailed,
\* GrandchildFailedTooSoon), re-encoding the decoded value with i32::from
\* yields n again, and whatever re-encoding yields is the integer that was
\* decoded, so the six outcomes have six distinct integers.
C11_RoundTrip ==
    /\ (c_stage \in {"decoded", "encoded"} /\ c_in \in 0..5) =>
           /\ c_dec.ok
           /\ c_dec.val = ExitCodeVariants[c_in + 1]
    /\ c_stage = "encoded" =>
           /\ c_in \in 0..5
           /\ c_enc = c_in
           /\ \A v \in ExitCodes : into_i32(v) = c_enc => v = c_dec.val

\* The last outcome decoded and encoded again.
C11_Witness == c_stage = "encoded" /\ c_in = 5 /\ c_enc = 5

\* C12: for every integer outside 0..5 decoding fails, and the error of
\* ExitCodes::try_from, like the error wait_for_success returns for such an
\* exit status, carries the integer: another unrecognised integer gives
\* another error.
C12_UnknownCodeCarried ==
    /\ (c_stage = "decoded" /\ c_in \notin 0..5) =>
           /\ ~c_dec.ok
           /\ \A m \in RawCodes : (m \notin 0..5 /\ m # c_in) => try_from(m) # c_dec
    /\ (c_stage = "waited" /\ WEXITSTATUS(W_EXITCODE(c_in)) \notin 0..5) =>
           /\ c_res.kind = "Err"
           /\ \A m \in RawCodes :
                  (/\ WEXITSTATUS(W_EXITCODE(m)) \notin 0..5
                   /\ WEXITSTATUS(W_EXITCODE(m)) # WEXITSTATUS(W_EXITCODE(c_in))) =>
                      decode_status(W_EXITCODE(m)) # c_res

\* The liveness wait has been entered or has returned.
InLivenessWait == pc["intermediate"] \in {"pidfd_open", "poll"} \/ wff.ret # "None"

\* C13: the timeout passed to the liveness wait is 1000 ms when
\* set_timeout_ms was never called and the last value given to
\* set_timeout_ms otherwise, and no step taken once daemonize has been
\* invoked changes the configured timeout or, after the wait has been
\* entered, the timeout passed to it.
C13_TimeoutPassed ==
    /\ [](InLivenessWait => timeout = IF last_given = 0 - 1 THEN 1000 ELSE last_given)
    /\ [][/\ pc["original"] # "new" => timeout_ms' = timeout_ms
          /\ InLivenessWait => timeout' = timeout]_vars

\* The liveness wait is pending with a timeout that was set by the caller.
C13_Witness ==
    /\ pc["intermediate"] = "poll"
    /\ last_given = Granule
    /\ timeout = Granule
    /\ waited = Granule

ReachedOpen ==
    \/ pc["grandchild"] \in {"open", "dup2_stdin", "dup2_stdout", "dup2_stderr", "close",
                             "returned"}
    \/ null_fd >= 0
    \/ "open" \in failed
    \/ \E n \in StdFds : fds["grandchild"][n] = "null"

\* C15: the grandchild is created only by an intermediate whose setsid has
\* succeeded (after a failed setsid there is never a grandchild and nobody
\* returns Identity::Daemon), and the grandchild opens the null device and
\* changes a descriptor slot only with its working directory at the root and
\* its mask at 0.
C15_Ordering ==
    /\ [](/\ pc["grandchild"] # "unborn" =>
                /\ leader["intermediate"]
                /\ sid["intermediate"] = "new"
                /\ "setsid" \notin failed
          /\ "setsid" \in failed =>
                /\ pc["grandchild"] = "unborn"
                /\ \A p \in Procs : result[p] # OkOf("Daemon")
          /\ ReachedOpen =>
                /\ cwd["grandchild"] = "/"
                /\ umask["grandchild"] = 0
                /\ "chdir" \notin failed)
    /\ [][/\ (pc["grandchild"] = "unborn" /\ pc'["grandchild"] # "unborn") =>
                (leader["intermediate"] /\ sid["intermediate"] = "new")
          /\ (null_fd' # null_fd \/ fds'["grandchild"] # fds["grandchild"]) =>
                (cwd["grandchild"] = "/" /\ umask["grandchild"] = 0)]_vars

\* The grandchild has redirected all three slots.
C15_Witness ==
    /\ pc["grandchild"] = "close"
    /\ \A n \in StdFds : fds["grandchild"][n] = "null"
    /\ leader["intermediate"]

\* The codes each role may hand to process::exit.
IntermediateExitCodes ==
    {"Ok", "ChildFailedToFork", "ChildSetsidFailed", "GrandchildFailedTooSoon"}
GrandchildExitCodes == {"GrandchildChdirFailed", "GrandchildOpenDevNullFailed"}

\* C16: an intermediate that has exited did so with Ok, ChildFailedToFork,
\* ChildSetsidFailed or GrandchildFailedTooSoon; a grandchild that exited
\* before daemonize returned did so with GrandchildChdirFailed or
\* GrandchildOpenDevNullFailed; each of these statuses encodes a value in
\* 0..5; and the original never exits.
C16_ExitCodesByRole ==
    /\ pc["intermediate"] = "exited" =>
           \E c \in IntermediateExitCodes : ExitedWith("intermediate", c)
    /\ (pc["grandchild"] = "exited" /\ result["grandchild"] = None) =>
           \E c \in GrandchildExitCodes : ExitedWith("grandchild", c)
    /\ \A p \in Procs :
           (pc[p] = "exited" /\ result[p] = None) =>
               \E n \in 0..5 : status[p] = n * 256
    /\ pc["original"] # "exited"
    /\ status["original"] = NotTerminated

\* The grandchild has exited on a failed open and the intermediate on seeing
\* it die.
C16_Witness ==
    /\ ExitedWith("grandchild", "GrandchildOpenDevNullFailed")
    /\ ExitedWith("intermediate", "GrandchildFailedTooSoon")

\* What a step may do to the grandchild's standard slots: turn a slot that
\* is not yet the null device into the null device, once the intermediate
\* leads its new session.
GrandchildRedirectsOnce ==
    pc["grandchild"] # "unborn" =>
        \A n \in StdFds :
            fds'["grandchild"][n] # fds["grandchild"][n] =>
                /\ leader["intermediate"]
                /\ sid["grandchild"] = "new"
                /\ fds["grandchild"][n] # "null"
                /\ fds'["grandchild"][n] = "null"

\* C17 as stated: no step changes a standard slot of the original or of the
\* intermediate, and the grandchild redirects each slot at most once, after
\* the intermediate has become leader of a new session.
C17_AsStated ==
    [][/\ fds'["original"] = fds["original"]
       /\ pc["intermediate"] # "unborn" => fds'["intermediate"] = fds["intermediate"]
       /\ GrandchildRedirectsOnce]_vars

\* C17: no step changes a standard slot of the original; the intermediate
\* changes no standard slot that was open when daemonize was called (the only
\* change is the process descriptor of pidfd_open landing in the lowest slot
\* the caller had left closed); and the grandchild redirects each slot at most
\* once, after the intermediate has become leader of a new session.
C17_StandardSlots ==
    [][/\ fds'["original"] = fds["original"]
       /\ pc["intermediate"] # "unborn" =>
              \A n \in StdFds :
                  fds'["intermediate"][n] # fds["intermediate"][n] =>
                      /\ fds["original"][n] = "closed"
                      /\ fds["intermediate"][n] = "closed"
                      /\ fds'["intermediate"][n] = "pidfd"
                      /\ pid_fd' = n
       /\ GrandchildRedirectsOnce]_vars

\* The caller had stdin closed: the intermediate's process descriptor sits in
\* slot 0, the grandchild has all three slots on the null device, and the
\* original's slots are as they were.
C17_Witness ==
    /\ fds["original"][0] = "closed"
    /\ fds["original"][1] = "inherited"
    /\ fds["intermediate"][0] = "pidfd"
    /\ \A n \in StdFds : fds["grandchild"][n] = "null"

\* C18: once the null device has been opened the grandchild neither exits
\* inside daemonize nor gets an Err, whatever dup2 and close report; when it
\* has returned, its result is Ok(Identity::Daemon) and the temporary
\* descriptor is closed exactly if its number is greater than 2, having been
\* open until then; and unless a signal kills it first, it does return.
C18_DaemonAfterOpen ==
    /\ [](null_fd >= 0 =>
            /\ result["grandchild"] \in {None, OkOf("Daemon")}
            /\ pc["grandchild"] = "exited" => result["grandchild"] = OkOf("Daemon")
            /\ pc["grandchild"] = "returned" => result["grandchild"] = OkOf("Daemon")
            /\ result["grandchild"] = OkOf("Daemon") => (null_open <=> null_fd <= 2)
            /\ pc["grandchild"] \in {"dup2_stdin", "dup2_stdout", "dup2_stderr", "close"} =>
                   null_open)
    /\ null_fd >= 0 ~> (result["grandchild"] = OkOf("Daemon") \/ pc["grandchild"] = "killed")

\* The grandchild has returned as the daemon although a dup2 and the close
\* failed.
C18_Witness ==
    /\ "dup2" \in failed
    /\ "close" \in failed
    /\ pc["grandchild"] = "returned"
    /\ result["grandchild"] = OkOf("Daemon")
    /\ ~null_open

C20_OkOnlyAfterWatching ==
    /\ (wff.ret # "None" /\ ("pidfd_open" \in failed \/ "poll" \in failed)) =>
           wff.ret = "Err"
    /\ (ExitedWith("intermediate", "Ok") /\ wff.ret = "Ok") => pid_fd >= 0

====
